---- MODULE Spec2Model ----
(***************************************************************************)
(* Verification model of the FastPitch acoustic module                     *)
(* (nemo/collections/tts/modules/fastpitch.py): the feature aligner        *)
(* average_features, the orchestration of FastPitchModule.forward and the  *)
(* length regulator regulate_len it calls.                                 *)
(*                                                                         *)
(* Tensors are sequences: a (B,C,F) signal is a sequence of B rows, each a *)
(* sequence of C channels, each a sequence of F integers.  Float results   *)
(* are exact fractions [num, den]; den = 0 encodes the IEEE specials       *)
(* (0/0 is NaN, +-1/0 is +-inf).  Float rounding is not modelled.          *)
(***************************************************************************)
EXTENDS Integers, Sequences, FiniteSets, TLC

VARIABLES
    av_pitch,       \* average_features: argument pitch, shape (B,C,F)
    av_durs,        \* average_features: argument durs, shape (B,T)
    av_pc,          \* "call" before the call, "returned" or "raised" after it
    pitch_sums,     \* local pitch_sums at the end of the call
    pitch_nelems,   \* local pitch_nelems at the end of the call
    pitch_avg,      \* the returned tensor pitch_avg, shape (B,C,T)
    self,           \* FastPitchModule attributes read by forward
    args,           \* forward: the keyword arguments durs, pitch, energy, spec
    fw_pc,          \* forward: the statement group to execute next
    durs_predicted, \* forward local: None or "computed"
    attn_hard_dur,  \* forward local: None or "computed"
    pitch_emb,      \* forward local: what the pitch embedding was made from
    energy_emb,     \* forward local: what the energy embedding was made from
    dur_source,     \* forward: the durations passed to regulate_len
    calls,          \* forward: how often each collaborator was invoked
    raised,         \* forward: None or the exception that ended the call
    result,         \* forward: the returned tuple, NoResult until the return
    rg_durations,   \* regulate_len: argument durations, shape (B,T)
    rg_enc_out,     \* regulate_len: argument enc_out (features), shape (B,T,D)
    rg_pace,        \* regulate_len: argument pace, the fraction <<num, den>>
    rg_pc,          \* "call" before the call, "returned" after it
    len_regulated,  \* regulate_len: the expanded sequence, shape (B,F_max,D)
    dec_lens,       \* regulate_len: the frame count of every row, shape (B)
    config,         \* read_cutset_from_config: the configuration
    cs_len,         \* the number of cuts behind every path (len of its cut set)
    cs_pc,          \* read_cutset_from_config: the statement group to execute next
    use_nemo_manifest, \* local of read_cutset_from_config
    is_tarred,      \* local of read_cutset_from_config
    cs_calls,       \* the readers and constructors invoked, in order
    cs_warnings,    \* the warnings emitted, in order
    cuts,           \* the cut set built by the reader
    cs_raised,      \* None or the exception that ended the call
    cs_result,      \* the returned pair (cuts, is_tarred)
    params,         \* get_sampler_config: the sampling parameters
    sp_pc,          \* get_sampler_config: the statement to execute next
    discretization_config, \* local of get_sampler_config
    guider_config,  \* local of get_sampler_config
    sp_raised,      \* the exception that ended get_sampler_config, if any
    sampler,        \* the sampler object returned
    slot_values,    \* the caller's slot-value dictionary
    cn_fn,          \* the Canary function called
    cn_pc,          \* whether the Canary call has started or is done
    cn_result,      \* the dictionary returned by map_manifest_values_to_special_tokens
    base_slot_values \* the slot values encode_turn passes to the base formatter

av_vars == <<av_pitch, av_durs, av_pc, pitch_sums, pitch_nelems, pitch_avg>>

fw_vars == <<self, args, fw_pc, durs_predicted, attn_hard_dur, pitch_emb,
             energy_emb, dur_source, calls, raised, result>>

rg_vars == <<rg_durations, rg_enc_out, rg_pace, rg_pc, len_regulated, dec_lens>>

cs_vars == <<config, cs_len, cs_pc, use_nemo_manifest, is_tarred, cs_calls,
             cs_warnings, cuts, cs_raised, cs_result>>

sp_vars == <<params, sp_pc, discretization_config, guider_config, sp_raised, sampler>>

cn_vars == <<slot_values, cn_fn, cn_pc, cn_result, base_slot_values>>

vars == <<av_vars, fw_vars, rg_vars, cs_vars, sp_vars, cn_vars>>

(***************************************************************************)
(* Bounds of the model.                                                    *)
(***************************************************************************)
MaxF == 4      \* frames of a signal; also the bound on B*C*F
MaxT == 2      \* tokens of a duration row
MaxVal == 1    \* largest signal value; the smallest is -1
MaxB == 2      \* batch rows
MaxC == 2      \* channels (formants)
MaxTok == 3    \* tokens of a regulated row; B*T is at most one more
MaxDur == 2    \* largest duration given to the regulator
MaxPaceNum == 3 \* pace is n/1 or n/2 with n up to this
MaxList == 2   \* entries of a list-valued configuration option
MaxCuts == 2   \* cuts of one data source; also the largest mixing weight
MaxStrLen == 3 \* characters of a generated language value

None == "None"

\* forward has returned nothing (yet): every element of the tuple is unset.
NoResult == [spect |-> None, dec_lens |-> None, durs_predicted |-> None,
             attn_hard_dur |-> None, pitch |-> None, energy_pred |-> None,
             energy_tgt |-> None]

(***************************************************************************)
(* Arithmetic helpers.                                                     *)
(***************************************************************************)
Abs(x) == IF x < 0 THEN 0 - x ELSE x

RECURSIVE GCD(_, _)
GCD(a, b) == IF b = 0 THEN a ELSE GCD(b, a % b)

\* A float value as an exact fraction in lowest terms, den > 0.
Frac(n, d) ==
    LET g == GCD(Abs(n), Abs(d))
        s == IF d < 0 THEN 0 - 1 ELSE 1
    IN  [num |-> s * (n \div g), den |-> s * (d \div g)]

NaN == [num |-> 0, den |-> 0]
Zero == [num |-> 0, den |-> 1]

\* Float division a / b of two integer-valued floats: x/0 is +-inf, 0/0 is NaN.
FloatDiv(a, b) ==
    IF b # 0 THEN Frac(a, b)
    ELSE IF a = 0 THEN NaN
    ELSE [num |-> IF a > 0 THEN 1 ELSE 0 - 1, den |-> 0]

RECURSIVE SeqSum(_)
SeqSum(s) == IF Len(s) = 0 THEN 0 ELSE s[1] + SeqSum(Tail(s))

\* torch.cumsum along the last axis of one row.
cumsum(s) == [i \in 1..Len(s) |-> SeqSum(SubSeq(s, 1, i))]

\* torch.nn.functional.pad(x, (1, 0)): one zero on the left of the last axis.
pad(s) == <<0>> \o s

\* torch.gather(arr, 2, idx) on one row: arr[idx[t]] with 0-based indices.  An
\* index outside 0..len(arr)-1 makes the whole gather raise.
GatherOk(arr, idx) == \A t \in 1..Len(idx) : idx[t] \in 0..(Len(arr) - 1)
gather(arr, idx) == [t \in 1..Len(idx) |-> arr[idx[t] + 1]]

(***************************************************************************)
(* average_features(pitch, durs), fastpitch.py lines 69-84.                *)
(***************************************************************************)
DursNotAccumulated(row) == row
\* durs_cums_ends = torch.cumsum(durs, dim=1).long(), one row.
durs_cums_ends(row) == cumsum(row)

StartsNotShifted(row) == [t \in 1..Len(row) |-> 0]
\* durs_cums_starts = pad(durs_cums_ends[:, :-1], (1, 0)), one row.
durs_cums_starts(row) ==
    pad(SubSeq(durs_cums_ends(row), 1, Len(row) - 1))

CountPositive(chan) ==
    pad(cumsum([i \in 1..Len(chan) |-> IF chan[i] > 0 THEN 1 ELSE 0]))
\* pitch_nonzero_cums = pad(torch.cumsum(pitch != 0.0, dim=2), (1, 0)), one channel.
pitch_nonzero_cums(chan) ==
    pad(cumsum([i \in 1..Len(chan) |-> IF chan[i] # 0 THEN 1 ELSE 0]))

CumsPadRight(chan) == cumsum(chan) \o <<0>>
CumsNoPad(chan) == cumsum(chan)
\* pitch_cums = pad(torch.cumsum(pitch, dim=2), (1, 0)), one channel.
pitch_cums(chan) == pad(cumsum(chan))

\* Every index of dce and dcs is a valid position of the length-(F+1) arrays.
IndicesOk(pitch, durs) ==
    \A b \in 1..Len(durs) : \A c \in 1..Len(pitch[b]) :
        /\ GatherOk(pitch_cums(pitch[b][c]), durs_cums_ends(durs[b]))
        /\ GatherOk(pitch_cums(pitch[b][c]), durs_cums_starts(durs[b]))

\* gather(cums, 2, dce) - gather(cums, 2, dcs) for one channel and one row.
GatherDiff(cums, row) ==
    LET e == gather(cums, durs_cums_ends(row))
        s == gather(cums, durs_cums_starts(row))
    IN  [t \in 1..Len(row) |-> e[t] - s[t]]

\* Line 80: pitch_sums, shape (B,C,T).
PitchSums(pitch, durs) ==
    [b \in 1..Len(durs) |-> [c \in 1..Len(pitch[b]) |->
        GatherDiff(pitch_cums(pitch[b][c]), durs[b])]]

\* Line 81: pitch_nelems, shape (B,C,T).
PitchNelems(pitch, durs) ==
    [b \in 1..Len(durs) |-> [c \in 1..Len(pitch[b]) |->
        GatherDiff(pitch_nonzero_cums(pitch[b][c]), durs[b])]]

WhereDropped(nelems, sums) == FloatDiv(sums, nelems)
\* Line 83, one element: torch.where(nelems == 0.0, nelems, sums / nelems).
Where(nelems, sums) ==
    IF nelems = 0 THEN Frac(nelems, 1) ELSE FloatDiv(sums, nelems)

PitchAvg(nelems, sums) ==
    [b \in 1..Len(sums) |-> [c \in 1..Len(sums[b]) |->
        [t \in 1..Len(sums[b][c]) |-> Where(nelems[b][c][t], sums[b][c][t])]]]

(***************************************************************************)
(* Inputs of average_features.                                             *)
(***************************************************************************)
Vals == (0 - 1)..MaxVal

Shapes ==
    {s \in (1..MaxB) \X (1..MaxC) \X (1..MaxF) : s[1] * s[2] * s[3] <= MaxF}

SeqsOfLen(S, n) == [1..n -> S]

Signals(B, C, F) == SeqsOfLen(SeqsOfLen(SeqsOfLen(Vals, F), C), B)

\* Duration rows of T non-negative integers; the sum may miss F by one frame
\* either way (the precondition sum == F is the caller's).
DurRows(T, F) == {r \in SeqsOfLen(0..(F + 1), T) : SeqSum(r) <= F + 1}

Durations(B, F) ==
    UNION {SeqsOfLen(DurRows(T, F), B) : T \in 1..MaxT}

\* The documented scenario: signal [[[0,2,0,4]]] with durations [[2,2]].
ScenarioPitch == <<<< <<0, 2, 0, 4>> >>>>
ScenarioDurs == << <<2, 2>> >>

AvInputs ==
    UNION {Signals(s[1], s[2], s[3]) \X Durations(s[1], s[3]) : s \in Shapes}
        \cup {<<ScenarioPitch, ScenarioDurs>>}

\* No call of average_features is in progress.
AlignerIdle ==
    /\ av_pitch = None /\ av_durs = None /\ av_pc = "idle"
    /\ pitch_sums = None /\ pitch_nelems = None /\ pitch_avg = None

\* No call of forward is in progress.
ForwardIdle ==
    /\ self = None /\ args = None /\ fw_pc = "idle"
    /\ durs_predicted = None /\ attn_hard_dur = None
    /\ pitch_emb = None /\ energy_emb = None /\ dur_source = None
    /\ calls = None /\ raised = None /\ result = NoResult

\* No call of regulate_len is in progress.
RegulatorIdle ==
    /\ rg_durations = None /\ rg_enc_out = None /\ rg_pace = None
    /\ rg_pc = "idle" /\ len_regulated = None /\ dec_lens = None

\* A configuration value that is None, and the cut set not built (yet).
NoneV == [kind |-> "None"]

\* No call of read_cutset_from_config is in progress.
CutsetIdle ==
    /\ config = None /\ cs_len = None /\ cs_pc = "idle"
    /\ use_nemo_manifest = FALSE /\ is_tarred = FALSE
    /\ cs_calls = <<>> /\ cs_warnings = <<>> /\ cuts = NoneV
    /\ cs_raised = None /\ cs_result = NoneV

\* No exception: the type, the message text and the tag named in the message.
NoError == [type |-> "None", text |-> "", tag |-> ""]

\* No call of get_sampler_config is in progress.
SamplerIdle ==
    /\ params = None /\ sp_pc = "idle"
    /\ discretization_config = NoneV /\ guider_config = NoneV
    /\ sp_raised = NoError /\ sampler = NoneV

\* The dictionary without keys.
EmptyDict == [k \in {} |-> <<>>]

\* No Canary call is in progress.
CanaryIdle ==
    /\ slot_values = EmptyDict /\ cn_fn = None /\ cn_pc = "idle"
    /\ cn_result = EmptyDict /\ base_slot_values = EmptyDict

InitAligner ==
    /\ \E in \in AvInputs : av_pitch = in[1] /\ av_durs = in[2]
    /\ av_pc = "call"
    /\ pitch_sums = None
    /\ pitch_nelems = None
    /\ pitch_avg = None
    /\ ForwardIdle
    /\ RegulatorIdle
    /\ CutsetIdle
    /\ SamplerIdle
    /\ CanaryIdle

\* The whole call: the gathers raise on an out-of-range index, else the
\* averaged tensor is returned.
AverageFeatures ==
    /\ av_pc = "call"
    /\ IF IndicesOk(av_pitch, av_durs)
       THEN /\ pitch_sums' = PitchSums(av_pitch, av_durs)
            /\ pitch_nelems' = PitchNelems(av_pitch, av_durs)
            /\ pitch_avg' = PitchAvg(pitch_nelems', pitch_sums')
            /\ av_pc' = "returned"
       ELSE /\ av_pc' = "raised"
            /\ UNCHANGED <<pitch_sums, pitch_nelems, pitch_avg>>
    /\ UNCHANGED <<av_pitch, av_durs>>
    /\ UNCHANGED <<fw_vars, rg_vars, cs_vars, sp_vars, cn_vars>>

NextAligner == AverageFeatures

SpecAligner == InitAligner /\ [][NextAligner]_vars

(***************************************************************************)
(* FastPitchModule.forward, fastpitch.py lines 292-423.  The sub-networks  *)
(* (encoder, predictors, aligner, decoder) are opaque and succeed; tensors *)
(* are abstracted to where they come from.                                 *)
(***************************************************************************)
Given == "given"

\* self.learn_alignment = aligner is not None; self.training; whether an
\* energy predictor was configured.
Modules == [learn_alignment : BOOLEAN, training : BOOLEAN, energy_predictor : {None, Given}]

\* pitch is absent, per spectrogram frame (its last axis differs from that of
\* pitch_predicted) or per token (the two last axes are equal).
Calls == [durs : {None, Given}, pitch : {None, "per_frame", "per_token"},
          energy : {None, Given}, spec : {None, Given}]

NoCalls == [encoder |-> 0, aligner |-> 0, average_features |-> 0,
            regulate_len |-> 0, decoder |-> 0]

InitForward ==
    /\ self \in Modules
    /\ args \in Calls
    /\ fw_pc = "assert"
    /\ durs_predicted = None /\ attn_hard_dur = None
    /\ pitch_emb = None /\ energy_emb = None /\ dur_source = None
    /\ calls = NoCalls /\ raised = None /\ result = NoResult
    /\ AlignerIdle
    /\ RegulatorIdle
    /\ CutsetIdle
    /\ SamplerIdle
    /\ CanaryIdle

Raise(e) == raised' = e /\ fw_pc' = "done"

\* Lines 310-312: without a learnt alignment, training needs durs and pitch.
CheckArgs ==
    /\ fw_pc = "assert"
    /\ IF ~self.learn_alignment /\ self.training /\ (args.durs = None \/ args.pitch = None)
       THEN Raise("AssertionError")
       ELSE fw_pc' = "encode" /\ UNCHANGED raised
    /\ UNCHANGED <<self, args, durs_predicted, attn_hard_dur, pitch_emb, energy_emb,
                   dur_source, calls, result>>
    /\ UNCHANGED <<av_vars, rg_vars, cs_vars, sp_vars, cn_vars>>

\* Lines 314-337: speaker embedding, encoder, duration predictor.
Encode ==
    /\ fw_pc = "encode"
    /\ calls' = [calls EXCEPT !.encoder = @ + 1]
    /\ durs_predicted' = "computed"
    /\ fw_pc' = "align"
    /\ UNCHANGED <<self, args, attn_hard_dur, pitch_emb, energy_emb, dur_source,
                   raised, result>>
    /\ UNCHANGED <<av_vars, rg_vars, cs_vars, sp_vars, cn_vars>>

\* Lines 339-349: the attention-derived hard durations exist only when the
\* alignment is learnt and spec is given.
Align ==
    /\ fw_pc = "align"
    /\ IF self.learn_alignment /\ args.spec # None
       THEN /\ calls' = [calls EXCEPT !.aligner = @ + 1]
            /\ attn_hard_dur' = "computed"
       ELSE UNCHANGED <<calls, attn_hard_dur>>
    /\ fw_pc' = "pitch"
    /\ UNCHANGED <<self, args, durs_predicted, pitch_emb, energy_emb, dur_source,
                   raised, result>>
    /\ UNCHANGED <<av_vars, rg_vars, cs_vars, sp_vars, cn_vars>>

\* average_features(x, d) as forward sees it: torch.cumsum(None) is a
\* TypeError; with a duration tensor the per-token average is returned, or
\* gather raises a RuntimeError when a running duration sum exceeds the
\* frames of x (nothing in forward relates the two).
AverageOutcomes(d) ==
    IF d = None THEN {"TypeError"} ELSE {"averaged", "RuntimeError"}

\* Lines 357-368: the pitch embedding.
PitchStep ==
    /\ fw_pc = "pitch"
    /\ IF args.pitch # None
       THEN IF self.learn_alignment /\ args.pitch = "per_frame"
            THEN /\ calls' = [calls EXCEPT !.average_features = @ + 1]
                 /\ \E o \in AverageOutcomes(attn_hard_dur) :
                    IF o = "averaged"
                    THEN pitch_emb' = "pitch_averaged" /\ fw_pc' = "energy" /\ UNCHANGED raised
                    ELSE Raise(o) /\ UNCHANGED pitch_emb
            ELSE IF ~self.learn_alignment
            THEN /\ calls' = [calls EXCEPT !.average_features = @ + 1]
                 /\ \E o \in AverageOutcomes(durs_predicted) :
                    IF o = "averaged"
                    THEN pitch_emb' = "pitch_averaged" /\ fw_pc' = "energy" /\ UNCHANGED raised
                    ELSE Raise(o) /\ UNCHANGED pitch_emb
            ELSE /\ pitch_emb' = "pitch" /\ fw_pc' = "energy"
                 /\ UNCHANGED <<calls, raised>>
       ELSE /\ pitch_emb' = "pitch_predicted" /\ fw_pc' = "energy"
            /\ UNCHANGED <<calls, raised>>
    /\ UNCHANGED <<self, args, durs_predicted, attn_hard_dur, energy_emb, dur_source, result>>
    /\ UNCHANGED <<av_vars, rg_vars, cs_vars, sp_vars, cn_vars>>

\* Whether the name prosody_input is bound when line 372 reads it: forward
\* assigns it nowhere and the module has no such global.
prosody_input_bound == FALSE

\* Lines 370-390: the energy embedding.
EnergyStep ==
    /\ fw_pc = "energy"
    /\ IF self.energy_predictor # None
       THEN IF ~prosody_input_bound
            THEN Raise("NameError") /\ UNCHANGED <<calls, energy_emb>>
            ELSE IF args.energy # None
            THEN LET d == IF self.learn_alignment THEN attn_hard_dur ELSE durs_predicted
                 IN  /\ calls' = [calls EXCEPT !.average_features = @ + 1]
                     /\ \E o \in AverageOutcomes(d) :
                        IF o = "averaged"
                        THEN energy_emb' = "energy_tgt" /\ fw_pc' = "regulate" /\ UNCHANGED raised
                        ELSE Raise(o) /\ UNCHANGED energy_emb
            ELSE /\ energy_emb' = "energy_pred" /\ fw_pc' = "regulate"
                 /\ UNCHANGED <<calls, raised>>
       ELSE /\ fw_pc' = "regulate"
            /\ UNCHANGED <<calls, raised, energy_emb>>
    /\ UNCHANGED <<self, args, durs_predicted, attn_hard_dur, pitch_emb, dur_source, result>>
    /\ UNCHANGED <<av_vars, rg_vars, cs_vars, sp_vars, cn_vars>>

SelectDursFirst(learn_alignment, spec, durs) ==
    IF durs # None THEN "durs"
    ELSE IF learn_alignment /\ spec # None THEN "attn_hard_dur"
    ELSE IF spec = None THEN "durs_predicted"
    ELSE "ValueError"
SelectFallsBackToPredicted(learn_alignment, spec, durs) ==
    IF learn_alignment /\ spec # None THEN "attn_hard_dur"
    ELSE IF spec = None /\ durs # None THEN "durs"
    ELSE "durs_predicted"
\* Lines 392-402: which durations go to regulate_len, or the ValueError.
SelectDurationSource(learn_alignment, spec, durs) ==
    IF learn_alignment /\ spec # None THEN "attn_hard_dur"
    ELSE IF spec = None /\ durs # None THEN "durs"
    ELSE IF spec = None THEN "durs_predicted"
    ELSE "ValueError"

\* Lines 392-402: length regulation.
Regulate ==
    /\ fw_pc = "regulate"
    /\ LET src == SelectDurationSource(self.learn_alignment, args.spec, args.durs)
       IN  IF src = "ValueError"
           THEN Raise("ValueError") /\ UNCHANGED <<calls, dur_source>>
           ELSE /\ dur_source' = src
                /\ calls' = [calls EXCEPT !.regulate_len = @ + 1]
                /\ fw_pc' = "decode"
                /\ UNCHANGED raised
    /\ UNCHANGED <<self, args, durs_predicted, attn_hard_dur, pitch_emb, energy_emb, result>>
    /\ UNCHANGED <<av_vars, rg_vars, cs_vars, sp_vars, cn_vars>>

\* Lines 404-423: decoder, projection and the returned tuple.
Decode ==
    /\ fw_pc = "decode"
    /\ calls' = [calls EXCEPT !.decoder = @ + 1]
    /\ result' = [spect |-> "spect", dec_lens |-> dur_source,
                  durs_predicted |-> durs_predicted, attn_hard_dur |-> attn_hard_dur,
                  pitch |-> pitch_emb,
                  energy_pred |-> IF self.energy_predictor # None THEN "energy_pred" ELSE None,
                  energy_tgt |-> IF energy_emb = "energy_tgt" THEN "energy_tgt" ELSE None]
    /\ fw_pc' = "done"
    /\ UNCHANGED <<self, args, durs_predicted, attn_hard_dur, pitch_emb, energy_emb,
                   dur_source, raised>>
    /\ UNCHANGED <<av_vars, rg_vars, cs_vars, sp_vars, cn_vars>>

NextForward ==
    \/ CheckArgs
    \/ Encode
    \/ Align
    \/ PitchStep
    \/ EnergyStep
    \/ Regulate
    \/ Decode

SpecForward == InitForward /\ [][NextForward]_vars

(***************************************************************************)
(* FastPitchModule.infer, fastpitch.py lines 425-481, on the variables of  *)
(* forward: infer has no aligner, no averaging and no duration sources.    *)
(***************************************************************************)
InferModules == [energy_predictor : {None, Given},
                 speaker_emb_condition_prosody : BOOLEAN,
                 speaker_emb_condition_decoder : BOOLEAN]

\* energy is absent, has one value per token of text, or another length.
InferCalls == [pitch : {None, Given}, energy : {None, "per_token", "other_length"},
               volume : {None, Given}]

\* The tuple infer returns, before it returns.
NoInferResult == [spect |-> None, dec_lens |-> None, durs_predicted |-> None,
                  log_durs_predicted |-> None, pitch_predicted |-> None,
                  volume_extended |-> None]

InitInfer ==
    /\ self \in InferModules
    /\ args \in InferCalls
    /\ fw_pc = "infer_encode"
    /\ durs_predicted = None /\ attn_hard_dur = None
    /\ pitch_emb = None /\ energy_emb = None /\ dur_source = None
    /\ calls = NoCalls /\ raised = None /\ result = NoInferResult
    /\ AlignerIdle
    /\ RegulatorIdle
    /\ CutsetIdle
    /\ SamplerIdle
    /\ CanaryIdle

\* Lines 426-443: speaker embedding, encoder, duration predictor.
InferEncode ==
    /\ fw_pc = "infer_encode"
    /\ calls' = [calls EXCEPT !.encoder = @ + 1]
    /\ durs_predicted' = "computed"
    /\ fw_pc' = "infer_pitch"
    /\ UNCHANGED <<self, args, attn_hard_dur, pitch_emb, energy_emb, dur_source,
                   raised, result>>
    /\ UNCHANGED <<av_vars, rg_vars, cs_vars, sp_vars, cn_vars>>

\* Lines 444-450: the predicted pitch plus the pitch argument, embedded; a
\* tensor plus None is a TypeError.
InferPitch ==
    /\ fw_pc = "infer_pitch"
    /\ IF args.pitch = None
       THEN Raise("TypeError") /\ UNCHANGED pitch_emb
       ELSE pitch_emb' = "pitch_predicted" /\ fw_pc' = "infer_energy" /\ UNCHANGED raised
    /\ UNCHANGED <<self, args, durs_predicted, attn_hard_dur, energy_emb, dur_source,
                   calls, result>>
    /\ UNCHANGED <<av_vars, rg_vars, cs_vars, sp_vars, cn_vars>>

\* Lines 452-459: the energy embedding.
InferEnergy ==
    /\ fw_pc = "infer_energy"
    /\ IF self.energy_predictor # None
       THEN IF args.energy # None
            THEN IF args.energy = "per_token"
                 THEN energy_emb' = "energy" /\ fw_pc' = "infer_regulate" /\ UNCHANGED raised
                 ELSE Raise("AssertionError") /\ UNCHANGED energy_emb
            ELSE IF ~prosody_input_bound
            THEN Raise("NameError") /\ UNCHANGED energy_emb
            ELSE energy_emb' = "energy_pred" /\ fw_pc' = "infer_regulate" /\ UNCHANGED raised
       ELSE fw_pc' = "infer_regulate" /\ UNCHANGED <<raised, energy_emb>>
    /\ UNCHANGED <<self, args, durs_predicted, attn_hard_dur, pitch_emb, dur_source,
                   calls, result>>
    /\ UNCHANGED <<av_vars, rg_vars, cs_vars, sp_vars, cn_vars>>

\* Lines 461-466: regulate_len over the predicted durations, and once more
\* for the volume when it is given.
InferRegulate ==
    /\ fw_pc = "infer_regulate"
    /\ dur_source' = "durs_predicted"
    /\ calls' = [calls EXCEPT !.regulate_len = @ + (IF args.volume # None THEN 2 ELSE 1)]
    /\ fw_pc' = "infer_decode"
    /\ UNCHANGED <<self, args, durs_predicted, attn_hard_dur, pitch_emb, energy_emb,
                   raised, result>>
    /\ UNCHANGED <<av_vars, rg_vars, cs_vars, sp_vars, cn_vars>>

\* Lines 468-481: decoder, projection and the returned tuple.
InferDecode ==
    /\ fw_pc = "infer_decode"
    /\ calls' = [calls EXCEPT !.decoder = @ + 1]
    /\ result' = [spect |-> "spect", dec_lens |-> dur_source,
                  durs_predicted |-> durs_predicted,
                  log_durs_predicted |-> "computed",
                  pitch_predicted |-> pitch_emb,
                  volume_extended |-> IF args.volume # None THEN "volume_extended" ELSE None]
    /\ fw_pc' = "done"
    /\ UNCHANGED <<self, args, durs_predicted, attn_hard_dur, pitch_emb, energy_emb,
                   dur_source, raised>>
    /\ UNCHANGED <<av_vars, rg_vars, cs_vars, sp_vars, cn_vars>>

NextInfer ==
    \/ InferEncode
    \/ InferPitch
    \/ InferEnergy
    \/ InferRegulate
    \/ InferDecode

SpecInfer == InitInfer /\ [][NextInfer]_vars

\* A call of forward or a call of infer.
InitProsody == InitForward \/ InitInfer

NextProsody ==
    \/ NextForward
    \/ NextInfer

SpecProsody == InitProsody /\ [][NextProsody]_vars

(***************************************************************************)
(* The length regulator regulate_len(durations, enc_out, pace), called at  *)
(* fastpitch.py lines 393-398 and 462-465 and defined in                   *)
(* nemo/collections/tts/parts/utils/helpers.py.  Modelled from its         *)
(* contract: per row, round(durations[b,t] / pace) consecutive copies of   *)
(* enc_out[b,t,:] per token, rows right-padded with zero vectors to the    *)
(* longest row.  Ties round half up.                                       *)
(***************************************************************************)
RoundDown(d, pace) == (d * pace[2]) \div pace[1]
RoundTimesPace(d, pace) == (2 * d * pace[1] + pace[2]) \div (2 * pace[2])
\* round(d / pace) for pace = pace[1] / pace[2]: floor(d / pace + 1/2).
Round(d, pace) == (2 * d * pace[2] + pace[1]) \div (2 * pace[1])

RECURSIVE Repeat(_, _)
\* n consecutive copies of the vector v
Repeat(v, n) == IF n <= 0 THEN <<>> ELSE <<v>> \o Repeat(v, n - 1)

RECURSIVE ExpandAtLeastOne(_, _, _)
ExpandAtLeastOne(durrow, featrow, pace) ==
    IF Len(durrow) = 0 THEN <<>>
    ELSE LET n == Round(durrow[1], pace)
         IN  Repeat(featrow[1], IF n = 0 THEN 1 ELSE n)
                \o ExpandAtLeastOne(Tail(durrow), Tail(featrow), pace)

RECURSIVE ExpandRow(_, _, _)
\* The frames of one row: the tokens' copies concatenated in token order.
ExpandRow(durrow, featrow, pace) ==
    IF Len(durrow) = 0 THEN <<>>
    ELSE Repeat(featrow[1], Round(durrow[1], pace))
            \o ExpandRow(Tail(durrow), Tail(featrow), pace)

ZeroVec(D) == [k \in 1..D |-> 0]

PadRowNot(row, n, D) == row
\* One row right-padded with zero vectors to n frames.
PadRow(row, n, D) == row \o [i \in 1..(n - Len(row)) |-> ZeroVec(D)]

SetMax(S) == CHOOSE m \in S : \A x \in S : x <= m

\* The two results: the padded expanded tensor and the true row lengths.
regulate_len(durations, enc_out, pace) ==
    LET rows == [b \in 1..Len(durations) |-> ExpandRow(durations[b], enc_out[b], pace)]
        lens == [b \in 1..Len(durations) |-> Len(rows[b])]
        max_len == SetMax({lens[b] : b \in 1..Len(durations)})
        D == Len(enc_out[1][1])
    IN  [len_regulated |-> [b \in 1..Len(durations) |-> PadRow(rows[b], max_len, D)],
         dec_lens |-> lens]

\* Feature vectors of the inputs: non-zero, so that a copy differs from padding.
FeatVecs == {<<1, 2>>, <<3, 4>>}

RgShapes == {s \in (1..MaxB) \X (1..MaxTok) : s[1] * s[2] <= MaxTok + 1}

Paces == (1..MaxPaceNum) \X (1..2)

\* The documented scenario: durations [[3,0,1]], features
\* [[[1,1],[9,9],[2,2]]], pace 1.
ScenarioDurations == << <<3, 0, 1>> >>
ScenarioFeatures == << << <<1, 1>>, <<9, 9>>, <<2, 2>> >> >>

RgInputs ==
    UNION {SeqsOfLen(SeqsOfLen(0..MaxDur, s[2]), s[1])
              \X SeqsOfLen(SeqsOfLen(FeatVecs, s[2]), s[1])
              \X Paces : s \in RgShapes}
        \cup {<<ScenarioDurations, ScenarioFeatures, <<1, 1>> >>}

InitRegulator ==
    /\ \E in \in RgInputs :
        rg_durations = in[1] /\ rg_enc_out = in[2] /\ rg_pace = in[3]
    /\ rg_pc = "call"
    /\ len_regulated = None
    /\ dec_lens = None
    /\ AlignerIdle
    /\ ForwardIdle
    /\ CutsetIdle
    /\ SamplerIdle
    /\ CanaryIdle

RegulateLen ==
    /\ rg_pc = "call"
    /\ LET out == regulate_len(rg_durations, rg_enc_out, rg_pace)
       IN  /\ len_regulated' = out.len_regulated
           /\ dec_lens' = out.dec_lens
    /\ rg_pc' = "returned"
    /\ UNCHANGED <<rg_durations, rg_enc_out, rg_pace>>
    /\ UNCHANGED <<av_vars, fw_vars, cs_vars, sp_vars, cn_vars>>

NextRegulator == RegulateLen

SpecRegulator == InitRegulator /\ [][NextRegulator]_vars

(***************************************************************************)
(* read_cutset_from_config and its two readers,                            *)
(* nemo/collections/common/data/lhotse/cutset.py.  A configuration value   *)
(* is None, a path or a list; Lhotse's CutSet and the NeMo iterators are   *)
(* opaque: a constructed cut set is the record of how it was made.         *)
(***************************************************************************)
Paths == {"a", "b"}

StrV(p) == [kind |-> "str", path |-> p]
ListV(items) == [kind |-> "list", items |-> items]
IsNone(v) == v.kind = "None"

SeqsUpTo(S, n) == UNION {SeqsOfLen(S, k) : k \in 0..n}

\* An entry of a list-valued manifest_filepath or tarred_audio_filepaths: an
\* inner list, of one path in the documented format [[path1], [path2], ...].
NemoEntries == {<<x>> : x \in Paths} \cup {<<"a", "b">>}

\* An item of a list-valued lhotse.shar_path: a path, a (path, number) pair,
\* or something else: a sequence of one or of three elements, a pair whose
\* second element is text, or a bare number.
SharItems ==
    [shape : {"str"}, path : Paths, weight : {0}]
        \cup [shape : {"pair"}, path : {"a"}, weight : 1..MaxCuts]
        \cup [shape : {"single", "triple", "pair_text_weight", "number"},
              path : {"a"}, weight : {0}]

\* manifest_filepath and tarred_audio_filepaths when no Lhotse option is set.
\* With a list of manifests the tar option is a list too or absent (the
\* format the code assumes on line 118).
NemoConfigs ==
    {c \in [manifest_filepath : {NoneV, StrV("a")} \cup {ListV(l) : l \in SeqsUpTo(NemoEntries, MaxList)},
            tarred_audio_filepaths : {NoneV, StrV("b")} \cup {ListV(l) : l \in SeqsUpTo(NemoEntries, MaxList)},
            lhotse : [cuts_path : {NoneV}, shar_path : {NoneV}]] :
        c.manifest_filepath.kind = "list" => c.tarred_audio_filepaths.kind # "str"}

\* Configurations with a Lhotse option set.
LhotseConfigs ==
    {c \in [manifest_filepath : {NoneV, StrV("a")},
            tarred_audio_filepaths : {NoneV, StrV("b")},
            lhotse : [cuts_path : {NoneV, StrV("a")},
                      shar_path : {NoneV, StrV("b")} \cup
                                  {ListV(l) : l \in SeqsUpTo(SharItems, MaxList)}]] :
        ~IsNone(c.lhotse.cuts_path) \/ ~IsNone(c.lhotse.shar_path)}

InitCutset ==
    /\ config \in NemoConfigs \cup LhotseConfigs
    /\ cs_len \in [Paths -> 1..MaxCuts]
    /\ cs_pc = "decide"
    /\ use_nemo_manifest = FALSE /\ is_tarred = FALSE
    /\ cs_calls = <<>> /\ cs_warnings = <<>> /\ cuts = NoneV
    /\ cs_raised = None /\ cs_result = NoneV
    /\ AlignerIdle
    /\ ForwardIdle
    /\ RegulatorIdle
    /\ SamplerIdle
    /\ CanaryIdle

UseNemoIfAnyUnset(c) == IsNone(c.lhotse.cuts_path) \/ IsNone(c.lhotse.shar_path)
\* Line 18: all(config.lhotse.get(opt) is None for opt in ("cuts_path", "shar_path")).
UseNemoManifest(c) == IsNone(c.lhotse.cuts_path) /\ IsNone(c.lhotse.shar_path)

IsTarredByManifest(c, nemo) ==
    IF nemo THEN ~IsNone(c.manifest_filepath) ELSE ~IsNone(c.lhotse.shar_path)
\* Lines 23 and 25: is_tarred.
IsTarred(c, nemo) ==
    IF nemo THEN ~IsNone(c.tarred_audio_filepaths) ELSE ~IsNone(c.lhotse.shar_path)

\* Lines 18-25: which manifest to read, the assertion and is_tarred.
Decide ==
    /\ cs_pc = "decide"
    /\ use_nemo_manifest' = UseNemoManifest(config)
    /\ IF use_nemo_manifest' /\ IsNone(config.manifest_filepath)
       THEN /\ cs_raised' = "AssertionError"
            /\ cs_pc' = "done"
            /\ UNCHANGED is_tarred
       ELSE /\ is_tarred' = IsTarred(config, use_nemo_manifest')
            /\ cs_pc' = "read"
            /\ UNCHANGED cs_raised
    /\ UNCHANGED <<config, cs_len, cs_calls, cs_warnings, cuts, cs_result>>
    /\ UNCHANGED <<av_vars, fw_vars, rg_vars, sp_vars, cn_vars>>

\* What a reader leaves behind: the exception or the cut set, the
\* constructors it invoked and the warnings it emitted.
Outcome(r, c, opened, warns) ==
    [raised |-> r, cuts |-> c, opened |-> opened, warnings |-> warns]

\* CutSet.from_shar(in_dir=path, shuffle_shards=True, seed=shar_seed)
FromShar(path) == [kind |-> "shar", path |-> path, repeat |-> FALSE]
\* cs.repeat()
Repeated(cs) == [cs EXCEPT !.repeat = TRUE]
\* CutSet.mux(*cutsets, weights=weights)
Mux(cutsets, weights) == [kind |-> "mux", cutsets |-> cutsets, weights |-> weights]

\* Line 76: isinstance(item, Sequence) and len(item) == 2 and
\* isinstance(item[1], (int, float)).
ItemAccepted(item) == item.shape = "pair"

WeightAlwaysLen(item, n) == n
\* Lines 74 and 82: the weight of an item whose cut set has n cuts.
ItemWeight(item, n) == IF item.shape = "str" THEN n ELSE item.weight

RECURSIVE SharLoop(_, _, _, _, _)
\* Lines 70-87: the loop over the items from item i on, then the mux.
SharLoop(items, i, cutsets, weights, opened) ==
    IF i > Len(items)
    THEN Outcome(None, Mux(cutsets, weights),
                 Append(opened, [fn |-> "CutSet.mux", path |-> None]), <<>>)
    ELSE IF items[i].shape # "str" /\ ~ItemAccepted(items[i])
    THEN Outcome("AssertionError", NoneV, opened, <<>>)
    ELSE LET cs == FromShar(items[i].path)
         IN  SharLoop(items, i + 1,
                      Append(cutsets, Repeated(cs)),
                      Append(weights, ItemWeight(items[i], cs_len[items[i].path])),
                      Append(opened, [fn |-> "CutSet.from_shar", path |-> items[i].path]))

\* Lines 53-87: the tarred branch of read_lhotse_manifest.
ReadShar(c) ==
    LET warns == IF ~IsNone(c.lhotse.cuts_path)
                 THEN <<"lhotse.cuts_path will be ignored">> ELSE <<>>
        o == IF c.lhotse.shar_path.kind = "str"
             THEN Outcome(None, Repeated(FromShar(c.lhotse.shar_path.path)),
                          <<[fn |-> "CutSet.from_shar", path |-> c.lhotse.shar_path.path]>>,
                          <<>>)
             ELSE IF IsNone(c.lhotse.shar_path)
             THEN Outcome("TypeError", NoneV, <<>>, <<>>)  \* a loop over None
             ELSE SharLoop(c.lhotse.shar_path.items, 1, <<>>, <<>>, <<>>)
    IN  [o EXCEPT !.warnings = warns]

\* Lines 88-90: the regular Lhotse manifest.
ReadCutsFile(c) ==
    Outcome(None, [kind |-> "file", path |-> c.lhotse.cuts_path.path],
            <<[fn |-> "CutSet.from_file", path |-> c.lhotse.cuts_path.path]>>, <<>>)

CutsPathFirst(c, tarred) ==
    IF ~IsNone(c.lhotse.cuts_path) THEN ReadCutsFile(c) ELSE ReadShar(c)
\* Lines 35-91: read_lhotse_manifest(config, is_tarred).
read_lhotse_manifest(c, tarred) ==
    IF tarred THEN ReadShar(c) ELSE ReadCutsFile(c)

Min(a, b) == IF a <= b THEN a ELSE b

\* zip(xs, ys): pairs up to the end of the shorter list.
Zip(xs, ys) == [i \in 1..Min(Len(xs), Len(ys)) |-> <<xs[i], ys[i]>>]

\* CutSet(LazyNeMoTarredIterator(manifest_path=mp, tar_paths=tp, ...))
TarredCutSet(mp, tp) == [kind |-> "nemo_tarred", manifest |-> mp, tars |-> tp]

RECURSIVE NemoLoop(_, _, _, _, _)
\* Lines 130-138: the loop over the zipped entries from pair i on, then the
\* mux.  Unpacking (mp,), (tp,) raises unless both inner lists hold one path.
NemoLoop(pairs, i, cutsets, weights, opened) ==
    IF i > Len(pairs)
    THEN Outcome(None, Mux(cutsets, weights),
                 Append(opened, [fn |-> "CutSet.mux", path |-> None]), <<>>)
    ELSE IF Len(pairs[i][1]) # 1 \/ Len(pairs[i][2]) # 1
    THEN Outcome("ValueError", NoneV, opened, <<>>)
    ELSE LET mp == pairs[i][1][1]
             tp == pairs[i][2][1]
         IN  NemoLoop(pairs, i + 1,
                      Append(cutsets, TarredCutSet(mp, tp)),
                      Append(weights, cs_len[mp]),
                      Append(opened, [fn |-> "LazyNeMoTarredIterator", path |-> mp]))

\* Lines 94-144: read_nemo_manifest(config, is_tarred).
read_nemo_manifest(c, tarred) ==
    IF tarred
    THEN IF c.manifest_filepath.kind = "str"
         THEN Outcome(None,
                      TarredCutSet(c.manifest_filepath.path, c.tarred_audio_filepaths),
                      <<[fn |-> "LazyNeMoTarredIterator", path |-> c.manifest_filepath.path]>>,
                      <<>>)
         ELSE IF IsNone(c.manifest_filepath) \/ IsNone(c.tarred_audio_filepaths)
         THEN Outcome("TypeError", NoneV, <<>>, <<>>)   \* zip over None
         ELSE NemoLoop(Zip(c.manifest_filepath.items, c.tarred_audio_filepaths.items),
                       1, <<>>, <<>>, <<>>)
    ELSE Outcome(None, [kind |-> "nemo", manifest |-> c.manifest_filepath],
                 <<[fn |-> "LazyNeMoIterator", path |-> None]>>, <<>>)

\* Invokes a reader and applies its outcome to the state of the call.
Finish(reader, o) ==
    /\ cs_calls' = <<[fn |-> reader, path |-> None]>> \o o.opened
    /\ cs_warnings' = o.warnings
    /\ cuts' = o.cuts
    /\ cs_raised' = o.raised
    /\ cs_pc' = IF o.raised = None THEN "return" ELSE "done"

\* Lines 26-28: the NeMo manifest is read.
ReadNemo ==
    /\ cs_pc = "read"
    /\ use_nemo_manifest
    /\ Finish("read_nemo_manifest", read_nemo_manifest(config, is_tarred))
    /\ UNCHANGED <<config, cs_len, use_nemo_manifest, is_tarred, cs_result>>
    /\ UNCHANGED <<av_vars, fw_vars, rg_vars, sp_vars, cn_vars>>

\* Lines 29-31: the Lhotse manifest is read.
ReadLhotse ==
    /\ cs_pc = "read"
    /\ ~use_nemo_manifest
    /\ Finish("read_lhotse_manifest", read_lhotse_manifest(config, is_tarred))
    /\ UNCHANGED <<config, cs_len, use_nemo_manifest, is_tarred, cs_result>>
    /\ UNCHANGED <<av_vars, fw_vars, rg_vars, sp_vars, cn_vars>>

\* Line 32: return cuts, is_tarred.
ReturnCuts ==
    /\ cs_pc = "return"
    /\ cs_result' = [kind |-> "tuple", cuts |-> cuts, is_tarred |-> is_tarred]
    /\ cs_pc' = "done"
    /\ UNCHANGED <<config, cs_len, use_nemo_manifest, is_tarred, cs_calls,
                   cs_warnings, cuts, cs_raised>>
    /\ UNCHANGED <<av_vars, fw_vars, rg_vars, sp_vars, cn_vars>>

NextCutset ==
    \/ Decide
    \/ ReadNemo
    \/ ReadLhotse
    \/ ReturnCuts

SpecCutset == InitCutset /\ [][NextCutset]_vars

(***************************************************************************)
(* get_sampler_config and the two configuration functions it calls,        *)
(* nemo/collections/multimodal/parts/stable_diffusion/sdxl_pipeline.py.    *)
(***************************************************************************)
Samplers == {"EulerEDMSampler", "HeunEDMSampler", "EulerAncestralSampler",
             "DPMPP2SAncestralSampler", "DPMPP2MSampler", "LinearMultistepSampler"}
Guiders == {"IdentityGuider", "VanillaCFG"}
Discretizations == {"LegacyDDPMDiscretization", "EDMDiscretization"}

\* The tags of params: every known tag and one unknown tag per option.
SamplerParams ==
    [sampler : Samplers \cup {"DDIMSampler"},
     guider : Guiders \cup {"DynamicCFG"},
     thresholder : {"None", "Dynamic"},
     discretization : Discretizations \cup {"KarrasDiscretization"}]

InitSampler ==
    /\ params \in SamplerParams
    /\ sp_pc = "discretization"
    /\ discretization_config = NoneV /\ guider_config = NoneV
    /\ sp_raised = NoError /\ sampler = NoneV
    /\ AlignerIdle
    /\ ForwardIdle
    /\ RegulatorIdle
    /\ CutsetIdle
    /\ CanaryIdle

\* An exception of the given type, with its message and the tag the message
\* names; a bare raise has neither.
Error(type, text, tag) == [type |-> type, text |-> text, tag |-> tag]

\* Lines 173-189: get_discretization_config(params), the configuration or
\* the exception.
get_discretization_config(p) ==
    IF p.discretization \in Discretizations
    THEN [raised |-> NoError, config |-> [kind |-> "config", target |-> p.discretization]]
    ELSE [raised |-> Error("ValueError", "unknown discretization", p.discretization),
          config |-> NoneV]

\* Lines 147-170: get_guider_config(params), the configuration or the
\* exception.
get_guider_config(p) ==
    IF p.guider = "IdentityGuider"
    THEN [raised |-> NoError, config |-> [kind |-> "config", target |-> "IdentityGuider"]]
    ELSE IF p.guider = "VanillaCFG"
    THEN IF p.thresholder = "None"
         THEN [raised |-> NoError, config |-> [kind |-> "config", target |-> "VanillaCFG"]]
         ELSE [raised |-> Error("NotImplementedError", "", ""), config |-> NoneV]
    ELSE [raised |-> Error("NotImplementedError", "", ""), config |-> NoneV]

\* Line 194: discretization_config = get_discretization_config(params).
GetDiscretizationConfig ==
    /\ sp_pc = "discretization"
    /\ LET r == get_discretization_config(params)
       IN  /\ discretization_config' = r.config
           /\ sp_raised' = r.raised
           /\ sp_pc' = IF r.raised = NoError THEN "guider" ELSE "done"
    /\ UNCHANGED <<params, guider_config, sampler>>
    /\ UNCHANGED <<av_vars, fw_vars, rg_vars, cs_vars, cn_vars>>

\* Line 195: guider_config = get_guider_config(params).
GetGuiderConfig ==
    /\ sp_pc = "guider"
    /\ LET r == get_guider_config(params)
       IN  /\ guider_config' = r.config
           /\ sp_raised' = r.raised
           /\ sp_pc' = IF r.raised = NoError THEN "sampler" ELSE "done"
    /\ UNCHANGED <<params, discretization_config, sampler>>
    /\ UNCHANGED <<av_vars, fw_vars, rg_vars, cs_vars, cn_vars>>

\* Lines 196-253: the sampler of the matching class, or ValueError.
SelectSampler ==
    /\ sp_pc = "sampler"
    /\ IF params.sampler \in Samplers
       THEN /\ sampler' = [kind |-> params.sampler,
                           discretization_config |-> discretization_config,
                           guider_config |-> guider_config]
            /\ UNCHANGED sp_raised
       ELSE /\ sp_raised' = Error("ValueError", "unknown sampler", params.sampler)
            /\ UNCHANGED sampler
    /\ sp_pc' = "done"
    /\ UNCHANGED <<params, discretization_config, guider_config>>
    /\ UNCHANGED <<av_vars, fw_vars, rg_vars, cs_vars, cn_vars>>

NextSampler ==
    \/ GetDiscretizationConfig
    \/ GetGuiderConfig
    \/ SelectSampler

SpecSampler == InitSampler /\ [][NextSampler]_vars

(***************************************************************************)
(* CanaryPromptFormatter.encode_turn and                                   *)
(* map_manifest_values_to_special_tokens,                                  *)
(* nemo/collections/common/prompts/canary.py.  A string is the sequence of *)
(* its characters; a dictionary is a function on the keys it holds.        *)
(***************************************************************************)
CANARY_PNC == <<"<", "|", "p", "n", "c", "|", ">">>
CANARY_NOPNC == <<"<", "|", "n", "o", "p", "n", "c", "|", ">">>
Transcribe == <<"<", "|", "t", "r", "a", "n", "s", "c", "r", "i", "b", "e", "|", ">">>
Translate == <<"<", "|", "t", "r", "a", "n", "s", "l", "a", "t", "e", "|", ">">>
Yes == <<"y", "e", "s">>
One == <<"1">>
TrueCap == <<"T", "r", "u", "e">>
TrueLow == <<"t", "r", "u", "e">>
No == <<"n", "o">>
Asr == <<"a", "s", "r">>
Ast == <<"a", "s", "t">>
En == <<"e", "n">>
EnToken == <<"<", "|", "e", "n", "|", ">">>
Hello == <<"h", "i">>

LangKeys == {"|SOURCE_LANG|", "|TARGET_LANG|"}
SlotKeys == LangKeys \cup {"|PNC|", "|TASK|", "|TEXT|"}

\* The characters the language test looks at.
Chars == {"<", "|", ">"}

\* Language values: every string of up to MaxStrLen such characters, a plain
\* language code and its special token.
LangValues == SeqsUpTo(Chars, MaxStrLen) \cup {En, EnToken}
LangSamples == {En, EnToken, <<"<", "|">>}
PncValues == {Yes, One, TrueCap, TrueLow, No, CANARY_PNC, CANARY_NOPNC}
TaskValues == {Asr, Ast, Transcribe, Translate}

\* Marks a key the dictionary does not hold.
Absent == <<"absent">>

\* The dictionary holding the keys of f whose value is not Absent.
DictOf(f) == [k \in {x \in DOMAIN f : f[x] # Absent} |-> f[k]]

SlotDicts ==
    {DictOf([k \in SlotKeys |->
                CASE k = "|SOURCE_LANG|" -> r.source_lang
                  [] k = "|TARGET_LANG|" -> r.target_lang
                  [] k = "|PNC|" -> r.pnc
                  [] k = "|TASK|" -> r.task
                  [] OTHER -> r.text]) :
        r \in [source_lang : LangValues \cup {Absent},
               target_lang : LangSamples \cup {Absent},
               pnc : PncValues \cup {Absent},
               task : TaskValues \cup {Absent},
               text : {Hello, Absent}]
           \cup [source_lang : LangSamples \cup {Absent},
                 target_lang : LangValues \cup {Absent},
                 pnc : PncValues \cup {Absent},
                 task : TaskValues \cup {Absent},
                 text : {Hello, Absent}]}

InitCanary ==
    /\ slot_values \in SlotDicts
    /\ cn_fn \in {"map_manifest_values_to_special_tokens", "encode_turn"}
    /\ cn_pc = "call"
    /\ cn_result = EmptyDict /\ base_slot_values = EmptyDict
    /\ AlignerIdle
    /\ ForwardIdle
    /\ RegulatorIdle
    /\ CutsetIdle
    /\ SamplerIdle

\* v.startswith(pre)
StartsWith(v, pre) == Len(v) >= Len(pre) /\ SubSeq(v, 1, Len(pre)) = pre
\* v.endswith(suf)
EndsWith(v, suf) == Len(v) >= Len(suf) /\ SubSeq(v, Len(v) - Len(suf) + 1, Len(v)) = suf

WrapAlways(v) == <<"<", "|">> \o v \o <<"|", ">">>
\* Lines 42-44: the language value after the loop body.
MapLang(v) ==
    IF StartsWith(v, <<"<", "|">>) /\ EndsWith(v, <<"|", ">">>)
    THEN v
    ELSE <<"<", "|">> \o v \o <<"|", ">">>

\* Lines 46-48: the |PNC| value.
MapPnc(v) ==
    IF v \in {CANARY_PNC, CANARY_NOPNC} THEN v
    ELSE IF v \in {Yes, One, TrueCap, TrueLow} THEN CANARY_PNC ELSE CANARY_NOPNC

MapTaskKeepsUnknown(v) == IF v = Asr THEN Transcribe ELSE v
\* Lines 50-52: the |TASK| value.
MapTask(v) ==
    IF v \in {Transcribe, Translate} THEN v
    ELSE IF v = Asr THEN Transcribe ELSE Translate

\* Lines 39-54: the copy of d with the four slots mapped.
map_manifest_values_to_special_tokens(d) ==
    [k \in DOMAIN d |->
        IF k \in LangKeys THEN MapLang(d[k])
        ELSE IF k = "|PNC|" THEN MapPnc(d[k])
        ELSE IF k = "|TASK|" THEN MapTask(d[k])
        ELSE d[k]]

CallerAliased(d, local) == local
\* Line 40: slot_values = slot_values.copy().  The function works on a copy,
\* so the caller's dictionary d is not the object whose final value is local.
CallerAfter(d, local) == d

\* A direct call of map_manifest_values_to_special_tokens(slot_values).
MapManifestValues ==
    /\ cn_pc = "call"
    /\ cn_fn = "map_manifest_values_to_special_tokens"
    /\ cn_result' = map_manifest_values_to_special_tokens(slot_values)
    /\ slot_values' = CallerAfter(slot_values, cn_result')
    /\ cn_pc' = "done"
    /\ UNCHANGED <<cn_fn, base_slot_values>>
    /\ UNCHANGED <<av_vars, fw_vars, rg_vars, cs_vars, sp_vars>>

\* Lines 26-36: encode_turn rebinds its local slot_values to the mapped copy
\* and hands it to PromptFormatter.encode_turn.
EncodeTurn ==
    /\ cn_pc = "call"
    /\ cn_fn = "encode_turn"
    /\ base_slot_values' = map_manifest_values_to_special_tokens(slot_values)
    /\ slot_values' = CallerAfter(slot_values, base_slot_values')
    /\ cn_pc' = "done"
    /\ UNCHANGED <<cn_fn, cn_result>>
    /\ UNCHANGED <<av_vars, fw_vars, rg_vars, cs_vars, sp_vars>>

NextCanary ==
    \/ MapManifestValues
    \/ EncodeTurn

SpecCanary == InitCanary /\ [][NextCanary]_vars

(***************************************************************************)
(* Reference definitions for the aligner claims: a direct scan of the      *)
(* frames start_t .. end_t - 1 of one token.                               *)
(***************************************************************************)
NumFrames == Len(av_pitch[1][1])
Cells == {x \in (1..Len(av_durs)) \X (1..Len(av_pitch[1])) \X (1..Len(av_durs[1])) : TRUE}

StartOf(b, t) == SeqSum(SubSeq(av_durs[b], 1, t - 1))
EndOf(b, t) == StartOf(b, t) + av_durs[b][t]
\* 1-based frame positions of the half-open interval [start_t, end_t)
FramesOf(b, t) == {i \in (StartOf(b, t) + 1)..EndOf(b, t) : i <= NumFrames}

RECURSIVE SumOver(_, _)
SumOver(chan, I) ==
    IF I = {} THEN 0
    ELSE LET i == CHOOSE j \in I : TRUE IN chan[i] + SumOver(chan, I \ {i})

ActiveFrames(b, c, t) == {i \in FramesOf(b, t) : av_pitch[b][c][i] # 0}
ActiveCount(b, c, t) == Cardinality(ActiveFrames(b, c, t))
ActiveSum(b, c, t) == SumOver(av_pitch[b][c], ActiveFrames(b, c, t))
RawSum(b, c, t) == SumOver(av_pitch[b][c], FramesOf(b, t))

\* The precondition of the aligner: every duration row sums to F.
DursSumToF == \A b \in 1..Len(av_durs) : SeqSum(av_durs[b]) = NumFrames
AvReturned == av_pc = "returned"

\* Fractions: a + b and a * k
FracAdd(a, b) == Frac(a.num * b.den + b.num * a.den, a.den * b.den)
FracTimes(a, k) == Frac(a.num * k, a.den)

RECURSIVE WeightedSum(_, _, _)
\* sum over the tokens 1..t of avg[t] * nelems[t]
WeightedSum(avg, nelems, t) ==
    IF t = 0 THEN Zero
    ELSE FracAdd(WeightedSum(avg, nelems, t - 1), FracTimes(avg[t], nelems[t]))

\* C1 (aligner zero-interval law): with durations summing to F the call
\* returns, and every token whose interval holds no non-zero value (a token of
\* duration 0 included) has the average exactly 0 in that channel: not NaN.
C1_ZeroIntervalLaw ==
    (av_pc # "call" /\ DursSumToF) =>
        /\ AvReturned
        /\ \A x \in Cells :
            ActiveCount(x[1], x[2], x[3]) = 0 => pitch_avg[x[1]][x[2]][x[3]] = Zero

\* A returned call with a zero-duration token, and a token of positive duration
\* over silent frames next to a token with active frames.
C1_Witness ==
    /\ AvReturned /\ DursSumToF
    /\ \E x \in Cells : av_durs[x[1]][x[3]] = 0 /\ pitch_avg[x[1]][x[2]][x[3]] = Zero
    /\ \E x \in Cells :
        /\ av_durs[x[1]][x[3]] > 0
        /\ ActiveCount(x[1], x[2], x[3]) = 0
        /\ pitch_avg[x[1]][x[2]][x[3]] = Zero
    /\ \E x \in Cells : ActiveCount(x[1], x[2], x[3]) > 0

\* C2 as stated (token-level average invariant): the average is zero exactly
\* when the interval has no active frame, otherwise it is active sum / count.
C2_ZeroIffNoActive ==
    (AvReturned /\ DursSumToF) =>
        \A x \in Cells :
            /\ (pitch_avg[x[1]][x[2]][x[3]] = Zero) <=> (ActiveCount(x[1], x[2], x[3]) = 0)
            /\ ActiveCount(x[1], x[2], x[3]) # 0 =>
                pitch_avg[x[1]][x[2]][x[3]] =
                    Frac(ActiveSum(x[1], x[2], x[3]), ActiveCount(x[1], x[2], x[3]))

\* C2 amended: the average is zero if the interval has no active frame,
\* otherwise it is active sum / active count, which is zero as well when the
\* active values cancel: zero iff no active frame or active sum zero.
C2_AverageInvariant ==
    (AvReturned /\ DursSumToF) =>
        \A x \in Cells :
            /\ pitch_avg[x[1]][x[2]][x[3]] =
                IF ActiveCount(x[1], x[2], x[3]) = 0 THEN Zero
                ELSE Frac(ActiveSum(x[1], x[2], x[3]), ActiveCount(x[1], x[2], x[3]))
            /\ (pitch_avg[x[1]][x[2]][x[3]] = Zero) <=>
                (ActiveCount(x[1], x[2], x[3]) = 0 \/ ActiveSum(x[1], x[2], x[3]) = 0)

\* A token whose active values cancel (average zero with two active frames)
\* next to a token with a non-zero average.
C2_Witness ==
    /\ AvReturned /\ DursSumToF
    /\ \E x \in Cells :
        ActiveCount(x[1], x[2], x[3]) = 2 /\ pitch_avg[x[1]][x[2]][x[3]] = Zero
    /\ \E x \in Cells : pitch_avg[x[1]][x[2]][x[3]].num < 0

AllFramesActive ==
    \A b \in 1..Len(av_pitch) : \A c \in 1..Len(av_pitch[b]) :
        \A i \in 1..NumFrames : av_pitch[b][c][i] # 0

\* C3 (aligner full-activity reduction): when every frame is non-zero, every
\* token of positive duration gets the arithmetic mean of its raw values.
C3_FullActivityReduction ==
    (AvReturned /\ DursSumToF /\ AllFramesActive) =>
        \A x \in Cells :
            av_durs[x[1]][x[3]] > 0 =>
                pitch_avg[x[1]][x[2]][x[3]] =
                    Frac(RawSum(x[1], x[2], x[3]), av_durs[x[1]][x[3]])

\* Two tokens of positive duration over active frames of both signs, the
\* second with a mean that is no integer.
C3_Witness ==
    /\ AvReturned /\ DursSumToF /\ AllFramesActive
    /\ Len(av_durs[1]) = 2 /\ av_durs[1][1] > 0 /\ av_durs[1][2] > 1
    /\ \E i \in 1..NumFrames : av_pitch[1][1][i] < 0
    /\ pitch_avg[1][1][2].den = 3

\* C4 (aligner sum invariant): per row and channel, the averages weighted by
\* the active counts add up to the sum of all signal values of the row.
C4_SumInvariant ==
    (AvReturned /\ DursSumToF) =>
        \A b \in 1..Len(av_durs) : \A c \in 1..Len(av_pitch[b]) :
            WeightedSum(pitch_avg[b][c], pitch_nelems[b][c], Len(av_durs[b])) =
                Frac(SeqSum(av_pitch[b][c]), 1)

\* A row of two tokens with active frames in both and a silent frame.
C4_Witness ==
    /\ AvReturned /\ DursSumToF
    /\ Len(av_durs[1]) = 2
    /\ pitch_nelems[1][1][1] > 0 /\ pitch_nelems[1][1][2] > 0
    /\ \E i \in 1..NumFrames : av_pitch[1][1][i] = 0
    /\ SeqSum(av_pitch[1][1]) # 0

\* C5 (prefix sums agree with the direct scan): the gathered differences of
\* the padded cumulative arrays are the sum and the count of the non-zero
\* values of frames start_t .. end_t - 1; [0,2,0,4] with [2,2] averages [2, 4].
C5_PrefixSumMatchesScan ==
    (AvReturned /\ DursSumToF) =>
        /\ \A x \in Cells :
            /\ pitch_sums[x[1]][x[2]][x[3]] = RawSum(x[1], x[2], x[3])
            /\ pitch_sums[x[1]][x[2]][x[3]] = ActiveSum(x[1], x[2], x[3])
            /\ pitch_nelems[x[1]][x[2]][x[3]] = ActiveCount(x[1], x[2], x[3])
        /\ (av_pitch = ScenarioPitch /\ av_durs = ScenarioDurs) =>
            pitch_avg = <<<< <<Frac(2, 1), Frac(4, 1)>> >>>>

\* The documented scenario after the call.
C5_Witness ==
    /\ AvReturned
    /\ av_pitch = ScenarioPitch /\ av_durs = ScenarioDurs
    /\ pitch_nelems = <<<< <<1, 1>> >>>>
    /\ pitch_sums = <<<< <<2, 4>> >>>>

\* C6 as stated: a duration row whose sum differs from F never makes the call
\* raise; a result of shape (B,C,T) is returned.
C6_NeverRaises ==
    (av_pc # "call" /\ ~DursSumToF) =>
        /\ AvReturned
        /\ Len(pitch_avg) = Len(av_pitch)
        /\ \A b \in 1..Len(av_pitch) :
            /\ Len(pitch_avg[b]) = Len(av_pitch[b])
            /\ \A c \in 1..Len(av_pitch[b]) : Len(pitch_avg[b][c]) = Len(av_durs[b])

\* C6 amended: the call raises exactly when some row's duration sum exceeds
\* F (a boundary index past the last position F of the cumulative arrays);
\* with every row sum <= F it returns a result of shape (B,C,T).
C6_RaisesIffSumExceedsF ==
    (av_pc # "call") =>
        /\ (av_pc = "raised") <=> (\E b \in 1..Len(av_durs) : SeqSum(av_durs[b]) > NumFrames)
        /\ AvReturned =>
            /\ Len(pitch_avg) = Len(av_pitch)
            /\ \A b \in 1..Len(av_pitch) :
                /\ Len(pitch_avg[b]) = Len(av_pitch[b])
                /\ \A c \in 1..Len(av_pitch[b]) : Len(pitch_avg[b][c]) = Len(av_durs[b])

\* A row whose durations sum to less than F: returned, the last frame with a
\* non-zero value is in no token's average.
C6_Witness ==
    /\ AvReturned
    /\ SeqSum(av_durs[1]) < NumFrames
    /\ av_pitch[1][1][NumFrames] # 0
    /\ Len(pitch_avg[1][1]) = Len(av_durs[1])

(***************************************************************************)
(* Claims about FastPitchModule.forward.                                   *)
(***************************************************************************)
SpecGiven == args.spec # None
DursGiven == args.durs # None
Unsupported == SpecGiven /\ ~self.learn_alignment
PastRegulate == fw_pc \in {"decode", "done"} /\ calls.regulate_len > 0

\* C7 (duration source decision table): regulate_len is invoked at most once
\* per call, a call that returns has invoked it, and the durations passed are
\* the attention-derived ones when spec is given and the alignment is learnt
\* (also when durs is given), the given durs when spec is absent and durs is
\* given, and the predicted ones when both are absent: never anything else.
C7_DurationSourceTable ==
    (fw_pc # "idle") =>
        /\ calls.regulate_len <= 1
        /\ (dur_source # None) <=> (calls.regulate_len = 1)
        /\ (result # NoResult) => (calls.regulate_len = 1)
        /\ (calls.regulate_len = 1) =>
            /\ (SpecGiven /\ self.learn_alignment) =>
                (dur_source = "attn_hard_dur" /\ attn_hard_dur = "computed")
            /\ (~SpecGiven /\ DursGiven) => dur_source = "durs"
            /\ (~SpecGiven /\ ~DursGiven) =>
                (dur_source = "durs_predicted" /\ durs_predicted = "computed")
            /\ ~Unsupported

\* A returned call with spec and durs both given and a learnt alignment: the
\* attention-derived durations were regulated, not the given durs.
C7_Witness ==
    /\ result # NoResult
    /\ SpecGiven /\ DursGiven /\ self.learn_alignment
    /\ dur_source = "attn_hard_dur"
    /\ calls.regulate_len = 1

\* C8 (unsupported combination is fatal): with spec given and no learnt
\* alignment the call ends in an exception, regulate_len and the decoder are
\* never invoked, nothing is returned and no collaborator is invoked twice.
C8_UnsupportedIsFatal ==
    (fw_pc # "idle" /\ Unsupported) =>
        /\ calls.regulate_len = 0
        /\ calls.decoder = 0
        /\ dur_source = None
        /\ result = NoResult
        /\ (fw_pc = "done") => raised # None
        /\ (raised # None) => fw_pc = "done"
        /\ \A k \in DOMAIN calls : calls[k] <= 1

\* The call reached the branch of lines 392-402 and ended in its ValueError.
C8_Witness ==
    /\ Unsupported
    /\ fw_pc = "done"
    /\ raised = "ValueError"
    /\ calls.encoder = 1
    /\ result = NoResult

(***************************************************************************)
(* Claims about the length regulator.                                      *)
(***************************************************************************)
RgReturned == rg_pc = "returned"
RgRows == 1..Len(rg_durations)
RgTokens == 1..Len(rg_durations[1])

\* The integer nearest to d / pace, the larger one on a tie: the k with
\* k - 1/2 <= d / pace < k + 1/2.
NearestInt(d, pace) ==
    CHOOSE k \in 0..(2 * d * pace[2] + 1) :
        /\ (2 * k - 1) * pace[1] <= 2 * d * pace[2]
        /\ 2 * d * pace[2] < (2 * k + 1) * pace[1]

RECURSIVE RepsBefore(_, _)
\* frames of the tokens 1..t of row b
RepsBefore(b, t) ==
    IF t = 0 THEN 0
    ELSE RepsBefore(b, t - 1) + NearestInt(rg_durations[b][t], rg_pace)

\* C9 (regulator length invariant): the frame count of every row is the sum
\* over its tokens of round(durations[b,t] / pace), and the row holds exactly
\* that many non-padding frames.
C9_LengthInvariant ==
    RgReturned =>
        \A b \in RgRows :
            /\ dec_lens[b] = RepsBefore(b, Len(rg_durations[b]))
            /\ Cardinality({i \in 1..Len(len_regulated[b]) :
                   len_regulated[b][i] # ZeroVec(Len(len_regulated[b][i]))}) = dec_lens[b]
            /\ \A i \in 1..Len(len_regulated[b]) :
                   (len_regulated[b][i] # ZeroVec(Len(len_regulated[b][i]))) <=> (i <= dec_lens[b])

\* A pace that is no integer, with a duration rounded up and one rounded down,
\* and a padded row in a batch of two.
C9_Witness ==
    /\ RgReturned
    /\ rg_pace[1] = 3 /\ rg_pace[2] = 2
    /\ \E b \in RgRows : \E t \in RgTokens : rg_durations[b][t] = 1
    /\ \E b \in RgRows : \E t \in RgTokens : rg_durations[b][t] = 2
    /\ \E b \in RgRows : dec_lens[b] > 0 /\ dec_lens[b] < Len(len_regulated[b])
    /\ \E b \in RgRows : dec_lens[b] = Len(len_regulated[b])

\* Token t of row b owns frame i: start_t < i <= end_t.
OwnsFrame(b, t, i) == RepsBefore(b, t - 1) < i /\ i <= RepsBefore(b, t)

\* The sequence s without its element t
Without(s, t) == SubSeq(s, 1, t - 1) \o SubSeq(s, t + 1, Len(s))

\* C10 (expansion order and zero-duration skip): frame i of a row is the
\* feature vector of the token whose run of round(durations/pace) frames
\* covers i, in token order; a token rounded to 0 frames owns no frame and
\* the other tokens' frames are where they would be without it; durations
\* [3,0,1] with features [1,1],[9,9],[2,2] and pace 1 give 4 frames.
C10_ExpansionOrder ==
    RgReturned =>
        /\ \A b \in RgRows :
            /\ \A i \in 1..dec_lens[b] :
                \E t \in RgTokens :
                    OwnsFrame(b, t, i) /\ len_regulated[b][i] = rg_enc_out[b][t]
            /\ \A t \in RgTokens :
                NearestInt(rg_durations[b][t], rg_pace) = 0 =>
                    /\ \A i \in 1..Len(len_regulated[b]) : ~OwnsFrame(b, t, i)
                    /\ SubSeq(len_regulated[b], 1, dec_lens[b]) =
                        ExpandRow(Without(rg_durations[b], t), Without(rg_enc_out[b], t),
                                  rg_pace)
        /\ (rg_durations = ScenarioDurations /\ rg_enc_out = ScenarioFeatures) =>
            /\ len_regulated = << << <<1, 1>>, <<1, 1>>, <<1, 1>>, <<2, 2>> >> >>
            /\ dec_lens = <<4>>

\* The documented scenario after the call.
C10_Witness ==
    /\ RgReturned
    /\ rg_durations = ScenarioDurations /\ rg_enc_out = ScenarioFeatures
    /\ rg_pace = <<1, 1>>
    /\ dec_lens = <<4>>
    /\ len_regulated[1][4] = <<2, 2>>

\* pace p is at most pace q, as fractions
PaceLeq(p, q) == p[1] * q[2] <= q[1] * p[2]

\* C11 (regulator pace monotonicity): for the same durations, the frame count
\* of every row under a pace that is at least the pace of the call is at most
\* the count the call reported, and under a smaller pace it is at least that.
C11_PaceMonotone ==
    RgReturned =>
        \A q \in Paces : \A b \in RgRows :
            /\ PaceLeq(rg_pace, q) =>
                regulate_len(rg_durations, rg_enc_out, q).dec_lens[b] <= dec_lens[b]
            /\ PaceLeq(q, rg_pace) =>
                regulate_len(rg_durations, rg_enc_out, q).dec_lens[b] >= dec_lens[b]

\* A call at pace 1 whose row is strictly shorter at pace 3/2 and strictly
\* longer at pace 1/2.
C11_Witness ==
    /\ RgReturned
    /\ rg_pace = <<1, 1>>
    /\ dec_lens[1] > 0
    /\ regulate_len(rg_durations, rg_enc_out, <<3, 2>>).dec_lens[1] < dec_lens[1]
    /\ regulate_len(rg_durations, rg_enc_out, <<1, 2>>).dec_lens[1] > dec_lens[1]

\* C12 (regulator padding invariant): all rows have the length of the longest
\* true row, no row is longer than that, every frame at or past a row's true
\* length is the zero vector and every frame before it is a feature vector of
\* a token of that row.
C12_PaddingInvariant ==
    RgReturned =>
        /\ \E m \in RgRows :
            /\ \A b \in RgRows : dec_lens[b] <= dec_lens[m]
            /\ \A b \in RgRows : Len(len_regulated[b]) = dec_lens[m]
        /\ \A b \in RgRows : \A i \in 1..Len(len_regulated[b]) :
            IF i > dec_lens[b]
            THEN len_regulated[b][i] = ZeroVec(Len(rg_enc_out[1][1]))
            ELSE \E t \in RgTokens : len_regulated[b][i] = rg_enc_out[b][t]

\* A batch of two rows of different true lengths: the shorter one is padded.
C12_Witness ==
    /\ RgReturned
    /\ Len(rg_durations) = 2
    /\ dec_lens[1] = 1 /\ dec_lens[2] = 3
    /\ Len(len_regulated[1]) = 3
    /\ len_regulated[1][3] = <<0, 0>>
    /\ len_regulated[1][1] = rg_enc_out[1][1]

(***************************************************************************)
(* Claims about read_cutset_from_config.                                   *)
(***************************************************************************)
CsReturned == cs_result.kind = "tuple"

\* The functions called so far, in order.
Opened == {cs_calls[i].fn : i \in 1..Len(cs_calls)}

\* The reader that was invoked took its tarred branch: it opened neither a
\* plain NeMo manifest nor a cuts file.
TarredBranch == Opened \cap {"LazyNeMoIterator", "CutSet.from_file"} = {}

\* C13: the call returns a boolean; with neither lhotse.cuts_path nor
\* lhotse.shar_path set the NeMo reader was invoked and the boolean is true
\* iff tarred_audio_filepaths is set, otherwise the Lhotse reader was invoked
\* and the boolean is true iff lhotse.shar_path is set; the branch the
\* reader took (tarred or not) agrees with the boolean.
C13_TarredFlag ==
    CsReturned =>
        /\ cs_result.is_tarred \in BOOLEAN
        /\ IF IsNone(config.lhotse.cuts_path) /\ IsNone(config.lhotse.shar_path)
           THEN /\ cs_calls[1].fn = "read_nemo_manifest"
                /\ cs_result.is_tarred <=> ~IsNone(config.tarred_audio_filepaths)
           ELSE /\ cs_calls[1].fn = "read_lhotse_manifest"
                /\ cs_result.is_tarred <=> ~IsNone(config.lhotse.shar_path)
        /\ cs_result.is_tarred <=> TarredBranch
        /\ cs_result.cuts = cuts /\ ~IsNone(cuts)

C13_Witness ==
    /\ CsReturned
    /\ cs_result.is_tarred
    /\ cs_calls[1].fn = "read_nemo_manifest"
    /\ config.manifest_filepath.kind = "list"
    /\ Len(cs_result.cuts.cutsets) = 2

AllThreeAbsent ==
    /\ IsNone(config.manifest_filepath)
    /\ IsNone(config.lhotse.cuts_path)
    /\ IsNone(config.lhotse.shar_path)

\* The assertion of lines 20-22 ended the call: an AssertionError before any
\* reader was invoked.
ManifestAssertionFired == cs_raised = "AssertionError" /\ cs_calls = <<>>

\* C14: with manifest_filepath, lhotse.cuts_path and lhotse.shar_path all
\* absent the call ends in an AssertionError with no reader invoked and no cut
\* set returned; with at least one of them present that assertion never fires.
C14_RequiresOneSource ==
    /\ cs_pc # "decide" /\ AllThreeAbsent =>
            /\ cs_pc = "done"
            /\ ManifestAssertionFired
            /\ cuts = NoneV /\ cs_result = NoneV
    /\ ~AllThreeAbsent => ~ManifestAssertionFired

C14_Witness ==
    /\ AllThreeAbsent
    /\ ~IsNone(config.tarred_audio_filepaths)
    /\ cs_pc = "done"
    /\ ManifestAssertionFired

\* The reader has run: it returned or raised.
ReaderRan == cs_calls # <<>> /\ cs_pc \in {"return", "done"}

\* The sources opened by the reader, as (function, path) calls.
Sources == {cs_calls[i] : i \in 2..Len(cs_calls)}

\* C17: with lhotse.shar_path and lhotse.cuts_path both set only Shar sources
\* are opened, never cuts_path, the warning that cuts_path is ignored is
\* emitted and the returned flag is true; with only cuts_path set the cut set
\* is read from that file and the returned flag is false.
C17_SharWinsOverCuts ==
    /\ ~IsNone(config.lhotse.shar_path) /\ ~IsNone(config.lhotse.cuts_path) =>
            /\ \A call \in Sources : call.fn \in {"CutSet.from_shar", "CutSet.mux"}
            /\ ReaderRan => cs_warnings = <<"lhotse.cuts_path will be ignored">>
            /\ CsReturned => cs_result.is_tarred
    /\ IsNone(config.lhotse.shar_path) /\ ~IsNone(config.lhotse.cuts_path) =>
            /\ ReaderRan =>
                   /\ cs_pc = "return" \/ CsReturned
                   /\ Sources = {[fn |-> "CutSet.from_file",
                                  path |-> config.lhotse.cuts_path.path]}
                   /\ cuts = [kind |-> "file", path |-> config.lhotse.cuts_path.path]
                   /\ cs_warnings = <<>>
            /\ CsReturned => ~cs_result.is_tarred /\ cs_result.cuts = cuts

C17_Witness ==
    /\ CsReturned
    /\ ~IsNone(config.lhotse.cuts_path)
    /\ config.lhotse.shar_path.kind = "list"
    /\ Len(cs_calls) = 4
    /\ cs_warnings # <<>>
    /\ cs_result.is_tarred

\* The reader ran on a list-valued lhotse.shar_path.
SharListRead == ReaderRan /\ config.lhotse.shar_path.kind = "list"

SharList == config.lhotse.shar_path.items

\* C18: for a list-valued lhotse.shar_path whose items are all paths or
\* (path, number) pairs the multiplexer receives one repeated cut set and one
\* weight per item, in the order of the list: len(cut set) for a path, the
\* given number for a pair; with any other item the reader ends in an
\* AssertionError and no multiplexed cut set is produced.
C18_OneWeightPerItem ==
    SharListRead =>
        IF \A i \in 1..Len(SharList) : SharList[i].shape \in {"str", "pair"}
        THEN /\ cs_raised = None
             /\ cuts.kind = "mux"
             /\ Len(cuts.cutsets) = Len(SharList)
             /\ Len(cuts.weights) = Len(SharList)
             /\ \A i \in 1..Len(SharList) :
                    /\ cuts.cutsets[i] =
                           [kind |-> "shar", path |-> SharList[i].path, repeat |-> TRUE]
                    /\ cuts.weights[i] =
                           IF SharList[i].shape = "str"
                           THEN cs_len[SharList[i].path]
                           ELSE SharList[i].weight
        ELSE /\ cs_raised = "AssertionError"
             /\ cuts = NoneV /\ cs_result = NoneV
             /\ "CutSet.mux" \notin Opened

C18_Witness ==
    /\ SharListRead
    /\ cuts.kind = "mux"
    /\ Len(cuts.weights) = 2
    /\ SharList[1].shape = "str" /\ SharList[2].shape = "pair"
    /\ cuts.weights[1] # cuts.weights[2]
    /\ cuts.weights[2] = SharList[2].weight

\* The tarred list branch of read_nemo_manifest ran and did not raise.
TarredListsRead ==
    /\ ReaderRan /\ cs_raised = None
    /\ cs_calls[1].fn = "read_nemo_manifest"
    /\ is_tarred
    /\ config.manifest_filepath.kind = "list"

\* C19: after the tarred list branch of read_nemo_manifest every entry of
\* manifest_filepath and every entry of tarred_audio_filepaths is the
\* manifest, respectively the tar, of a source of the multiplexer, and every
\* source is weighted by the number of utterances of its manifest.
C19_NoEntryLeftOut ==
    TarredListsRead =>
        /\ cuts.kind = "mux"
        /\ Len(cuts.weights) = Len(cuts.cutsets)
        /\ \A k \in 1..Len(cuts.cutsets) :
               cuts.weights[k] = cs_len[cuts.cutsets[k].manifest]
        /\ \A i \in 1..Len(config.manifest_filepath.items) :
               \E k \in 1..Len(cuts.cutsets) :
                   <<cuts.cutsets[k].manifest>> = config.manifest_filepath.items[i]
        /\ \A i \in 1..Len(config.tarred_audio_filepaths.items) :
               \E k \in 1..Len(cuts.cutsets) :
                   <<cuts.cutsets[k].tars>> = config.tarred_audio_filepaths.items[i]

(***************************************************************************)
(* Claims about get_sampler_config.                                        *)
(***************************************************************************)
InvalidTags ==
    {t \in {params.sampler} : t \notin Samplers}
        \cup {t \in {params.guider} : t \notin Guiders}
        \cup {t \in {params.discretization} : t \notin Discretizations}
        \cup {t \in {params.thresholder} : params.guider = "VanillaCFG" /\ t # "None"}

\* C15: when get_sampler_config has ended, any invalid tag made it raise an
\* error whose message names an invalid tag and no sampler is returned, and
\* with only valid tags the sampler of the class named by params.sampler is
\* returned.
C15_InvalidTagsNamed ==
    sp_pc = "done" =>
        IF InvalidTags # {}
        THEN /\ sp_raised # NoError
             /\ sp_raised.text # ""
             /\ sp_raised.tag \in InvalidTags
             /\ sampler = NoneV
        ELSE /\ sp_raised = NoError
             /\ sampler.kind = params.sampler

(***************************************************************************)
(* Claims about the Canary prompt formatter.                               *)
(***************************************************************************)
\* The mapped dictionary the finished call produced: the result of the
\* function, or what encode_turn passed to the base formatter.
Mapped == IF cn_fn = "encode_turn" THEN base_slot_values ELSE cn_result

\* s begins with the characters < | and ends with the characters | >.
SpecialForm(s) ==
    /\ Len(s) >= 2
    /\ s[1] = "<" /\ s[2] = "|"
    /\ s[Len(s) - 1] = "|" /\ s[Len(s)] = ">"

\* C16: after the mapping every present |SOURCE_LANG| and |TARGET_LANG|
\* value starts with <| and ends with |>, every present |PNC| value is one of
\* the two PNC tokens and is the PNC token exactly for the inputs yes, 1,
\* True, true and the PNC token, every present |TASK| value is <|transcribe|>
\* or <|translate|> with asr mapped to <|transcribe|>; encode_turn passes
\* values of that form for every slot the caller gave to the base formatter.
C16_MappedForms ==
    cn_pc = "done" =>
        /\ DOMAIN Mapped = DOMAIN slot_values
        /\ \A k \in DOMAIN Mapped \cap LangKeys : SpecialForm(Mapped[k])
        /\ "|PNC|" \in DOMAIN Mapped =>
               /\ Mapped["|PNC|"] \in {CANARY_PNC, CANARY_NOPNC}
               /\ Mapped["|PNC|"] = CANARY_PNC <=>
                      slot_values["|PNC|"] \in {Yes, One, TrueCap, TrueLow, CANARY_PNC}
        /\ "|TASK|" \in DOMAIN Mapped =>
               /\ Mapped["|TASK|"] \in {Transcribe, Translate}
               /\ slot_values["|TASK|"] = Asr => Mapped["|TASK|"] = Transcribe

C16_Witness ==
    /\ cn_pc = "done" /\ cn_fn = "encode_turn"
    /\ DOMAIN slot_values = SlotKeys
    /\ slot_values["|SOURCE_LANG|"] = En
    /\ slot_values["|PNC|"] = Yes
    /\ slot_values["|TASK|"] = Ast
    /\ base_slot_values["|SOURCE_LANG|"] = EnToken
    /\ base_slot_values["|PNC|"] = CANARY_PNC
    /\ base_slot_values["|TASK|"] = Translate

\* C20: mapping the result of map_manifest_values_to_special_tokens once more
\* gives the same dictionary.
C20_MapIdempotent ==
    cn_pc = "done" /\ cn_fn = "map_manifest_values_to_special_tokens" =>
        map_manifest_values_to_special_tokens(cn_result) = cn_result

C20_Witness ==
    /\ cn_pc = "done" /\ cn_fn = "map_manifest_values_to_special_tokens"
    /\ LangKeys \cup {"|PNC|", "|TASK|"} \subseteq DOMAIN slot_values
    /\ slot_values["|SOURCE_LANG|"] = <<"<", "|">>
    /\ slot_values["|TARGET_LANG|"] = EnToken
    /\ cn_result["|SOURCE_LANG|"] = <<"<", "|", "<", "|", "|", ">">>
    /\ cn_result # slot_values

MappedSlots == LangKeys \cup {"|PNC|", "|TASK|"}

\* C21: a call of map_manifest_values_to_special_tokens leaves the caller's
\* dictionary as it was, returns a dictionary with exactly the caller's keys,
\* and gives every key other than |SOURCE_LANG|, |TARGET_LANG|, |PNC| and
\* |TASK| the caller's value.
C21_NoEffectOutsideResult ==
    [][cn_pc = "call" /\ cn_fn = "map_manifest_values_to_special_tokens" =>
          /\ slot_values' = slot_values
          /\ DOMAIN cn_result' = DOMAIN slot_values
          /\ \A k \in DOMAIN slot_values \ MappedSlots :
                 cn_result'[k] = slot_values[k]]_vars

C21_Witness ==
    /\ cn_pc = "done" /\ cn_fn = "map_manifest_values_to_special_tokens"
    /\ DOMAIN slot_values = {"|SOURCE_LANG|", "|TASK|", "|TEXT|"}
    /\ slot_values["|SOURCE_LANG|"] = En
    /\ slot_values["|TASK|"] = Asr
    /\ cn_result["|SOURCE_LANG|"] = EnToken
    /\ cn_result["|TASK|"] = Transcribe
    /\ cn_result["|TEXT|"] = Hello

(***************************************************************************)
(* Claims about the durations forward averages over and its energy step.   *)
(***************************************************************************)
\* average_features was called with None for its durations: the only
\* TypeError of forward is the one torch.cumsum raises on None.
AveragedOverNone == calls.average_features > 0 /\ raised = "TypeError"

\* C22: for every combination of learn_alignment, spec, pitch and energy no
\* call of average_features in forward receives None as its durations.
C22_AveragingDursDefined == ~AveragedOverNone

\* The call reached length regulation.
ReachedRegulation == calls.regulate_len > 0

\* The energy embedding added to the encoder output when the energy step
\* completes: of the predicted energy when energy is absent, of the target
\* energy when it is given.
ExpectedEnergyEmb ==
    IF args.energy = None THEN {"energy_pred"} ELSE {"energy_tgt", "energy"}

\* C23: with an energy predictor configured neither forward nor infer fails
\* on an undefined input of the energy predictor, and a call that reaches
\* length regulation has embedded the predicted energy when energy is absent
\* and the target energy when it is given.
C23_EnergyStepCompletes ==
    self.energy_predictor # None =>
        /\ raised # "NameError"
        /\ ReachedRegulation => energy_emb \in ExpectedEnergyEmb

====
